---- MODULE Spec2Model ----
(***************************************************************************)
(* bookyard: the dataset context (DatasetService) and the user-based       *)
(* collaborative-filtering recommender (RecommendationEngine).             *)
(*                                                                         *)
(* Numbers.  User ids and ISBNs are naturals (an ISBN's number stands for  *)
(* its place in the string order pandas sorts the columns by).  float64    *)
(* similarities are fixed-point integers in units of 1/SimScale, truncated *)
(* toward zero.  A predicted rating is the exact fraction num/den, den     *)
(* being the sum of the neighbours' similarities.                          *)
(*                                                                         *)
(* Optional values.  A field that Python holds as None or as an object is  *)
(* a sequence of length 0 or 1: None is <<>>, the object x is <<x>>.       *)
(***************************************************************************)
EXTENDS Integers, Sequences, FiniteSets, TLC

VARIABLES
    books_data,        \* DatasetService._books_data
    user_book_matrix,  \* DatasetService._user_book_matrix
    user_similarity,   \* DatasetService._user_similarity
    is_loaded,         \* DatasetService._is_loaded
    argsort_ties,      \* how this build's unstable sort orders equal keys
    op,                \* the last call observed: its arguments and its outcome
    ld,                \* a load_datasets call in progress (interleaved runs)
    rd,                \* a recommend_books call in progress (interleaved runs)
    recommendation     \* services/recommendation.py: its globals, and what
                       \* its recommend_books returned to the call in op

vars == <<books_data, user_book_matrix, user_similarity, is_loaded,
          argsort_ties, op, ld, rd, recommendation>>

ctx == <<books_data, user_book_matrix, user_similarity, is_loaded>>

---------------------------------------------------------------------------
(* Bounds                                                                  *)

\* k is drawn from 0..MaxK, top_n from 0..MaxTopN, user_id from 1..MaxUserId
MaxK == 3
MaxTopN == 2
MaxUserId == 3
\* resolution of the fixed-point similarities
SimScale == 100

---------------------------------------------------------------------------
(* Helpers on sets and sequences                                           *)

Range(s) == {s[i] : i \in DOMAIN s}

Min2(a, b) == IF a <= b THEN a ELSE b

RECURSIVE SumOver(_, _)
\* the sum of f[x] over the finite set S
SumOver(S, f) ==
    IF S = {} THEN 0
    ELSE LET x == CHOOSE y \in S : TRUE IN f[x] + SumOver(S \ {x}, f)

RECURSIVE SortedSeq(_)
\* the elements of a finite set of integers in ascending order
SortedSeq(S) ==
    IF S = {} THEN <<>>
    ELSE LET m == CHOOSE x \in S : \A y \in S : x <= y
         IN <<m>> \o SortedSeq(S \ {m})

\* GetLoc, were an absent value given the first place
GetLocFirst(s, x) ==
    IF x \in Range(s) THEN CHOOSE i \in DOMAIN s : s[i] = x ELSE 1

\* the place of x in the sequence s of distinct values, 0 when absent
\* (pandas Index.get_loc raises KeyError there)
GetLoc(s, x) ==
    IF x \in Range(s) THEN CHOOSE i \in DOMAIN s : s[i] = x ELSE 0

RECURSIVE ISqrtFrom(_, _)
ISqrtFrom(n, r) == IF (r + 1) * (r + 1) > n THEN r ELSE ISqrtFrom(n, r + 1)

\* floor of the square root
ISqrt(n) == ISqrtFrom(n, 0)

---------------------------------------------------------------------------
(* The CSV files a load reads                                              *)

Book(isbn, title) == [ISBN |-> isbn, Book_Title |-> title]

Rating(u, isbn, r) == [User_ID |-> u, ISBN |-> isbn, Book_Rating |-> r]

\* Books.csv: every ISBN once; ISBN 4 twice and no ISBN 5; ISBNs 1..3 only
BooksFiles == <<
    <<Book(1, 11), Book(2, 12), Book(3, 13), Book(4, 14), Book(5, 15)>>,
    <<Book(1, 11), Book(2, 12), Book(3, 13), Book(4, 14), Book(4, 24)>>,
    <<Book(1, 11), Book(2, 12), Book(3, 13)>> >>

\* Users.csv: users 1..4; user 1 missing
UsersFiles == << <<1, 2, 3, 4>>, <<2, 3, 4>> >>

\* Book-Ratings.csv
RatingsFiles == <<
    \* users 1 and 2 agree, user 3 disagrees; one implicit (zero) rating
    <<Rating(1, 1, 3), Rating(1, 2, 1), Rating(1, 3, 2),
      Rating(2, 1, 3), Rating(2, 2, 1), Rating(2, 3, 2), Rating(2, 4, 1),
      Rating(2, 5, 3),
      Rating(3, 1, 1), Rating(3, 2, 3), Rating(3, 4, 2), Rating(3, 5, 2),
      Rating(3, 3, 0)>>,
    \* users 2 and 3 rate alike and are as similar to user 1 as user 1 is
    <<Rating(1, 1, 1), Rating(1, 2, 3), Rating(1, 3, 2),
      Rating(2, 1, 1), Rating(2, 2, 3), Rating(2, 3, 2), Rating(2, 4, 2),
      Rating(2, 5, 2),
      Rating(3, 1, 1), Rating(3, 2, 3), Rating(3, 3, 2), Rating(3, 4, 2),
      Rating(3, 5, 2)>>,
    \* zero ratings only
    <<Rating(1, 1, 0), Rating(1, 2, 0), Rating(1, 3, 0),
      Rating(2, 1, 0), Rating(2, 2, 0), Rating(2, 3, 0)>>,
    \* one user rating one book three times
    <<Rating(2, 1, 2), Rating(2, 1, 2), Rating(2, 1, 2)>>,
    \* user 1 gives every book the same rating; users 2 and 3 rate every book
    <<Rating(1, 1, 2), Rating(1, 2, 2), Rating(1, 3, 2),
      Rating(2, 1, 1), Rating(2, 2, 2), Rating(2, 3, 3),
      Rating(3, 1, 1), Rating(3, 2, 2), Rating(3, 3, 3)>>,
    \* four users, each leaving one of four books unrated
    <<Rating(1, 1, 3), Rating(1, 2, 2), Rating(1, 3, 1),
      Rating(2, 1, 3), Rating(2, 2, 2), Rating(2, 4, 1),
      Rating(3, 2, 3), Rating(3, 3, 1), Rating(3, 4, 2),
      Rating(4, 1, 1), Rating(4, 3, 3), Rating(4, 4, 3)>>,
    \* two users of three ratings each, one book of each rated by nobody else
    <<Rating(1, 1, 3), Rating(1, 2, 1), Rating(1, 3, 2),
      Rating(2, 1, 1), Rating(2, 2, 3), Rating(2, 4, 2)>> >>

Files(b, r, u) == [books |-> b, ratings |-> r, users |-> u]

\* what a load is pointed at: one file of each kind
Datasets ==
    {Files(1, 1, 1), Files(2, 1, 1), Files(3, 1, 1), Files(1, 1, 2),
     Files(1, 2, 1), Files(1, 3, 1), Files(1, 4, 1), Files(1, 5, 1),
     Files(1, 6, 1), Files(2, 6, 1), Files(1, 6, 2), Files(1, 7, 1)}

---------------------------------------------------------------------------
(* DatasetService.load_datasets: from the three tables to the matrices     *)

\* the rows of the two inner joins, each a <<rating row, book row, user row>>,
\* of the ratings that are > 0
MergedDf(ratings, books, users) ==
    {t \in (DOMAIN ratings) \X (DOMAIN books) \X (DOMAIN users) :
        /\ ratings[t[1]].Book_Rating > 0
        /\ ratings[t[1]].ISBN = books[t[2]].ISBN
        /\ ratings[t[1]].User_ID = users[t[3]]}

min_user_ratings == 3
min_book_ratings == 2

UsersWithEnoughRatings(ratings, merged) ==
    {u \in {ratings[t[1]].User_ID : t \in merged} :
        Cardinality({t \in merged : ratings[t[1]].User_ID = u})
            >= min_user_ratings}

BooksWithEnoughRatings(ratings, merged) ==
    {b \in {ratings[t[1]].ISBN : t \in merged} :
        Cardinality({t \in merged : ratings[t[1]].ISBN = b})
            >= min_book_ratings}

\* merged_df after the two threshold filters, users first and then books
FilteredDf(ratings, books, users) ==
    LET m0 == MergedDf(ratings, books, users)
        us == UsersWithEnoughRatings(ratings, m0)
        m1 == {t \in m0 : ratings[t[1]].User_ID \in us}
        bs == BooksWithEnoughRatings(ratings, m1)
    IN {t \in m1 : ratings[t[1]].ISBN \in bs}

\* pivot_table(index=User-ID, columns=ISBN, values=Book-Rating, fill_value=0):
\* sorted distinct users and ISBNs, each cell the mean of the pair's ratings.
\* (The integer division is exact for the files above: the ratings a pair
\* repeats are equal.)
PivotTable(ratings, merged) ==
    LET index == SortedSeq({ratings[t[1]].User_ID : t \in merged})
        columns == SortedSeq({ratings[t[1]].ISBN : t \in merged})
        val == [t \in merged |-> ratings[t[1]].Book_Rating]
        cell(u, b) ==
            LET T == {t \in merged : /\ ratings[t[1]].User_ID = u
                                     /\ ratings[t[1]].ISBN = b}
            IN IF T = {} THEN 0 ELSE SumOver(T, val) \div Cardinality(T)
    IN [index |-> index, columns |-> columns,
        values |-> [i \in DOMAIN index |->
                      [j \in DOMAIN columns |-> cell(index[i], columns[j])]]]

\* Lines 170-175: a row with its mean subtracted from its cells > 0.  The row
\* is kept n-fold (n the number of cells > 0) so that it stays integral; the
\* cosine does not change with a row's positive scale.
Normalized(row) ==
    LET present == {j \in DOMAIN row : row[j] > 0}
        n == Cardinality(present)
        s == SumOver(present, row)
    IN [j \in DOMAIN row |-> IF row[j] > 0 THEN n * row[j] - s ELSE 0]

Dot(x, y) == SumOver(DOMAIN x, [j \in DOMAIN x |-> x[j] * y[j]])

\* Cosine, were the product divided by the square of the first row's norm
CosineByFirstNorm(x, y) ==
    LET d == Dot(x, y)
        nx == Dot(x, x)
        ny == Dot(y, y)
        q == ISqrt((d * d * SimScale * SimScale) \div (nx * nx))
    IN IF nx = 0 \/ ny = 0 THEN 0 ELSE IF d < 0 THEN 0 - q ELSE q

\* sklearn cosine_similarity of two rows: 0 when either norm is 0
Cosine(x, y) ==
    LET d == Dot(x, y)
        nx == Dot(x, x)
        ny == Dot(y, y)
        q == ISqrt((d * d * SimScale * SimScale) \div (nx * ny))
    IN IF nx = 0 \/ ny = 0 THEN 0 ELSE IF d < 0 THEN 0 - q ELSE q

\* DatasetService._compute_similarity_matrix, on to_numpy() of the matrix
ComputeSimilarityMatrix(values) ==
    LET norm == [i \in DOMAIN values |-> Normalized(values[i])]
    IN [i \in DOMAIN values |->
          [j \in DOMAIN values |-> Cosine(norm[i], norm[j])]]

\* lines 86-129 on the files of dataset d: the rows of merged_df, the pivot
\* and its similarity matrix
Compute(d) ==
    LET ratings == RatingsFiles[d.ratings]
        merged == FilteredDf(ratings, BooksFiles[d.books], UsersFiles[d.users])
        matrix == PivotTable(ratings, merged)
    IN [merged_len |-> Cardinality(merged),
        matrix |-> matrix,
        similarity |-> ComputeSimilarityMatrix(matrix.values)]

RECURSIVE Tabulate(_)
Tabulate(S) ==
    IF S = {} THEN <<>>
    ELSE LET d == CHOOSE x \in S : TRUE
         IN (d :> Compute(d)) @@ Tabulate(S \ {d})

\* Compute, evaluated once per dataset
Computed == Tabulate(Datasets)

---------------------------------------------------------------------------
(* The context and one load of it                                          *)

\* the four fields of the singleton as one record
Context(b, m, s, l) ==
    [books_data |-> b, user_book_matrix |-> m, user_similarity |-> s,
     is_loaded |-> l]

\* class attributes, lines 14-19
Unloaded == Context(<<>>, <<>>, <<>>, FALSE)

\* the statements of load_datasets that can raise or that assign a field, in
\* program order: read Books.csv (line 59), read Book-Ratings.csv and
\* Users.csv (lines 67-81), filter, merge and pivot (lines 86-125), compute
\* the similarities (line 129), set _is_loaded (line 131), build the status
\* dict (lines 133-146).  _ratings_data and _users_data are assigned too;
\* nothing outside load_datasets reads them and they are not kept here.
Stages == <<"books", "tables", "pivot", "similarity", "finish", "statistics">>

\* every read_csv of the load succeeds
NoFault == [stage |-> "none", error |-> "none"]

\* what the environment does to a load: nothing, or one read_csv raises
Faults ==
    {NoFault} \cup
    [stage : {"books", "tables"},
     error : {"FileNotFoundError", "Exception"}]

\* StageRaises, were cosine_similarity to accept a matrix without rows
StageRaisesEmptyAccepted(d, fault, st) ==
    IF st = fault.stage THEN fault.error
    ELSE IF st = "statistics" /\ Computed[d].matrix.index = <<>>
    THEN "ZeroDivisionError"
    ELSE "none"

\* the exception stage st of a load of d raises, "none" when it completes:
\* read_csv as the environment has it, cosine_similarity (a ValueError) on a
\* matrix without rows, and the divisions of lines 140-141 by the number of
\* rows
StageRaises(d, fault, st) ==
    IF st = fault.stage THEN fault.error
    ELSE IF st = "similarity" /\ Computed[d].matrix.index = <<>>
    THEN "ValueError"
    ELSE IF st = "statistics" /\ Computed[d].matrix.index = <<>>
    THEN "ZeroDivisionError"
    ELSE "none"

\* StageEffect, were Books.csv read only into a context that holds no books
\* table
StageEffectKeepsBooks(c, d, st) ==
    CASE st = "books" /\ c.books_data = <<>> ->
            [c EXCEPT !.books_data = <<BooksFiles[d.books]>>]
      [] st = "pivot" -> [c EXCEPT !.user_book_matrix = <<Computed[d].matrix>>]
      [] st = "similarity" ->
            [c EXCEPT !.user_similarity = <<Computed[d].similarity>>]
      [] st = "finish" -> [c EXCEPT !.is_loaded = TRUE]
      [] OTHER -> c

\* the context once stage st of a load of d has completed
StageEffect(c, d, st) ==
    CASE st = "books" -> [c EXCEPT !.books_data = <<BooksFiles[d.books]>>]
      [] st = "pivot" -> [c EXCEPT !.user_book_matrix = <<Computed[d].matrix>>]
      [] st = "similarity" ->
            [c EXCEPT !.user_similarity = <<Computed[d].similarity>>]
      [] st = "finish" -> [c EXCEPT !.is_loaded = TRUE]
      [] OTHER -> c

\* the except clauses, lines 151-157: only the second resets _is_loaded
Handler(c, error) ==
    IF error = "FileNotFoundError" THEN c ELSE [c EXCEPT !.is_loaded = FALSE]

\* lines 133-146, the two quotients as fractions: sparsity is
\* 1 - len(merged_df) / (rows * columns)
LoadStatus(d) ==
    LET rows == Len(Computed[d].matrix.index)
        cols == Len(Computed[d].matrix.columns)
        len == Computed[d].merged_len
    IN [status |-> "success",
        total_users |-> rows,
        total_books |-> cols,
        total_ratings |-> len,
        avg_ratings_per_user |-> [num |-> len, den |-> rows],
        sparsity |-> [num |-> rows * cols - len, den |-> rows * cols]]

\* no value is returned when the call raises
NoValue == [status |-> "none"]

\* lines 153 and 157: the Exception raised, its message naming the error
\* that was caught
Raise(error) == [status |-> "none", cause |-> error]

RECURSIVE RunStages(_, _, _, _)
\* load_datasets from stage i on: the context it leaves and what it returns
RunStages(c, d, fault, i) ==
    IF i > Len(Stages)
    THEN [context |-> c, raised |-> "none", result |-> LoadStatus(d)]
    ELSE LET error == StageRaises(d, fault, Stages[i])
         IN IF error # "none"
            THEN [context |-> Handler(c, error), raised |-> "Exception",
                  result |-> Raise(error)]
            ELSE RunStages(StageEffect(c, d, Stages[i]), d, fault, i + 1)

LoadDatasets(c, d, fault) == RunStages(c, d, fault, 1)

\* DatasetService.get_status
GetStatus(c) ==
    IF ~c.is_loaded
    THEN [status |-> "not_loaded"]
    ELSE LET m == c.user_book_matrix[1]
         IN [status |-> "loaded",
             users |-> Len(m.index), books |-> Len(m.columns),
             total_ratings |->
                 Cardinality({ij \in (DOMAIN m.index) \X (DOMAIN m.columns) :
                                 m.values[ij[1]][ij[2]] # 0})]

---------------------------------------------------------------------------
(* RecommendationEngine.recommend_books                                    *)

Reverse(s) == [i \in DOMAIN s |-> s[Len(s) + 1 - i]]

\* Python's s[a:b] for 0 <= a and 0 <= b
Slice(s, a, b) == SubSeq(s, a + 1, Min2(b, Len(s)))

\* np.argsort(keys): the places of keys in ascending order of key.  The
\* default sort is not stable; equal keys come in ascending place when ties
\* is "stable" and in descending place when it is "reversed".
Argsort(keys, ties) ==
    LET before(j, i) ==
            \/ keys[j] < keys[i]
            \/ /\ keys[j] = keys[i]
               /\ IF ties = "stable" THEN j < i ELSE j > i
        rank(i) == 1 + Cardinality({j \in DOMAIN keys : before(j, i)})
    IN [p \in DOMAIN keys |-> CHOOSE i \in DOMAIN keys : rank(i) = p]

\* SortValuesDescending, were ascending left at its default
SortValuesAscending(keys, ties) == Argsort(keys, ties)

\* DataFrame.sort_values(ascending=False): pandas reverses the keys, argsorts
\* them ascending and reverses the outcome; the i-th row of the result is row
\* SortValuesDescending(keys, ties)[i] of the frame
SortValuesDescending(keys, ties) ==
    LET n == Len(keys)
        a == Argsort(Reverse(keys), ties)
    IN Reverse([p \in DOMAIN keys |-> n + 1 - a[p]])

\* line 61-62: the copy of the user's similarity row, values <= 0 set to 0
SimilarityScores(sim, user_index) ==
    [j \in DOMAIN sim[user_index] |->
        IF sim[user_index][j] <= 0 THEN 0 ELSE sim[user_index][j]]

\* SimilarUsersIndices, were the first place of the order not skipped
SimilarUsersIndicesFromFirst(scores, k, ties) ==
    LET top == Slice(Reverse(Argsort(scores, ties)), 0, k)
        positive(j) == scores[j] > 0
    IN SelectSeq(top, positive)

\* SimilarUsersIndices, were the places of score 0 not dropped (lines 66-68)
SimilarUsersIndicesUnfiltered(scores, k, ties) ==
    Slice(Reverse(Argsort(scores, ties)), 1, k + 1)

\* lines 65-68: the places after the first of the descending order, k of
\* them, those with a score > 0
SimilarUsersIndices(scores, k, ties) ==
    LET top == Slice(Reverse(Argsort(scores, ties)), 1, k + 1)
        positive(j) == scores[j] > 0
    IN SelectSeq(top, positive)

\* AvgBookRatings, were the books the user has rated not set to -1
AvgBookRatingsUnmasked(values, user_index, neighbours, scores) ==
    [j \in DOMAIN values[user_index] |->
        SumOver(Range(neighbours),
                [u \in Range(neighbours) |-> values[u][j] * scores[u]])]

\* lines 74-84, as numerators over the common denominator sum(weights):
\* the neighbours' ratings weighted by similarity, and -1 for the books the
\* user has rated
AvgBookRatings(values, user_index, neighbours, scores) ==
    LET den == SumOver(Range(neighbours), scores)
    IN [j \in DOMAIN values[user_index] |->
          IF values[user_index][j] > 0 THEN 0 - den
          ELSE SumOver(Range(neighbours),
                       [u \in Range(neighbours) |-> values[u][j] * scores[u]])]

\* lines 87-90: the columns in descending order of score, those with a score
\* >= 0, top_n of them
TopBookIndices(avg, top_n, ties) ==
    LET nonneg(j) == avg[j] >= 0
    IN Slice(SelectSeq(Reverse(Argsort(avg, ties)), nonneg), 0, top_n)

Message(text) == [ok |-> FALSE, message |-> text, rows |-> <<>>]

\* lines 96-115: the rows of the books table whose ISBN is recommended, each
\* with its column's predicted rating, in descending order of it
RecommendedBooks(books, columns, top, avg, den, ties) ==
    LET isbns == {columns[top[i]] : i \in DOMAIN top}
        wanted(b) == b.ISBN \in isbns
        found == SelectSeq(books, wanted)
        predicted == [i \in DOMAIN found |-> avg[GetLoc(columns, found[i].ISBN)]]
        order == SortValuesDescending(predicted, ties)
    IN [i \in DOMAIN found |->
          [ISBN |-> found[order[i]].ISBN,
           Book_Title |-> found[order[i]].Book_Title,
           Predicted_Rating |-> [num |-> predicted[order[i]], den |-> den]]]

\* ClampK, were a k above the bound wrapped around instead of cut to it
ClampKWrapped(k, rows) == k % rows

\* line 58: k is cut to the number of rows of the matrix less one
ClampK(k, rows) == Min2(k, rows - 1)

\* lines 53-119 on the three objects read at lines 44-46; an IndexError (the
\* similarity matrix and the user-book matrix differ in size) is caught at
\* line 117
Recommend(books, m, sim, user_id, k, top_n, ties) ==
    LET user_index == GetLoc(m.index, user_id)
        kk == ClampK(k, Len(m.index))
    IN IF user_index = 0 THEN Message("User ID not found in the dataset")
       ELSE IF user_index > Len(sim) THEN Message("Error generating recommendations")
       ELSE
         LET scores == SimilarityScores(sim, user_index)
             neighbours == SimilarUsersIndices(scores, kk, ties)
         IN IF neighbours = <<>>
            THEN Message("No similar users found for recommendations")
            ELSE IF \E i \in DOMAIN neighbours : neighbours[i] > Len(m.index)
            THEN Message("Error generating recommendations")
            ELSE
              LET avg == AvgBookRatings(m.values, user_index, neighbours, scores)
                  den == SumOver(Range(neighbours), scores)
                  top == TopBookIndices(avg, top_n, ties)
              IN IF top = <<>> THEN Message("No new books to recommend")
                 ELSE [ok |-> TRUE, message |-> "",
                       rows |-> RecommendedBooks(books, m.columns, top, avg,
                                                 den, ties)]

\* RecommendBooks, were the matrix tested for None (as the free function
\* recommend_books of services/recommendation.py does) and not _is_loaded
RecommendBooksIfMatrix(c, user_id, k, top_n, ties) ==
    IF c.user_book_matrix = <<>>
    THEN Message("Datasets not loaded. Please load datasets first.")
    ELSE Recommend(c.books_data[1], c.user_book_matrix[1],
                   c.user_similarity[1], user_id, k, top_n, ties)

\* recommend_books on the context
RecommendBooks(c, user_id, k, top_n, ties) ==
    IF ~c.is_loaded
    THEN Message("Datasets not loaded. Please load datasets first.")
    ELSE Recommend(c.books_data[1], c.user_book_matrix[1],
                   c.user_similarity[1], user_id, k, top_n, ties)

\* get_recommendations_dict: a key the dict lacks is <<>> here
RecommendationsDict(result, user_id, k, top_n) ==
    IF ~result.ok
    THEN [status |-> "error", message |-> <<result.message>>,
          user_id |-> user_id, total_recommendations |-> <<>>,
          recommendations |-> <<>>, parameters |-> <<>>]
    ELSE [status |-> "success", message |-> <<>>, user_id |-> user_id,
          total_recommendations |-> <<Len(result.rows)>>,
          recommendations |-> <<result.rows>>,
          parameters |-> <<[k_similar_users |-> k, top_n_books |-> top_n]>>]

GetRecommendationsDict(c, user_id, k, top_n, ties) ==
    RecommendationsDict(RecommendBooks(c, user_id, k, top_n, ties),
                        user_id, k, top_n)

---------------------------------------------------------------------------
(* services/recommendation.py: the same algorithm as free functions over   *)
(* module globals                                                          *)

\* the globals of lines 9-13 that recommend_books reads, and the value its
\* last call returned
Globals(b, m, s, returned) ==
    [books_data |-> b, user_book_matrix |-> m, user_similarity |-> s,
     returned |-> returned]

\* the statements of load_datasets_into_memory that can raise or that assign
\* one of these globals: lines 21, 29-43, 46-76, 82-93
ModuleStages == <<"books", "tables", "pivot", "similarity">>

\* read_csv raises as the environment has it; cosine_similarity raises on a
\* matrix without rows
ModuleStageRaises(d, fault, st) ==
    IF st = fault.stage THEN fault.error
    ELSE IF st = "similarity" /\ Computed[d].matrix.index = <<>>
    THEN "ValueError"
    ELSE "none"

ModuleStageEffect(g, d, st) ==
    CASE st = "books" -> [g EXCEPT !.books_data = <<BooksFiles[d.books]>>]
      [] st = "pivot" -> [g EXCEPT !.user_book_matrix = <<Computed[d].matrix>>]
      [] st = "similarity" ->
            [g EXCEPT !.user_similarity = <<Computed[d].similarity>>]
      [] OTHER -> g

RECURSIVE RunModuleStages(_, _, _, _)
\* load_datasets_into_memory from stage i on; it has no except clause, the
\* globals stay as the stages before the raise left them
RunModuleStages(g, d, fault, i) ==
    IF i > Len(ModuleStages) THEN g
    ELSE IF ModuleStageRaises(d, fault, ModuleStages[i]) # "none" THEN g
    ELSE RunModuleStages(ModuleStageEffect(g, d, ModuleStages[i]), d, fault,
                         i + 1)

LoadDatasetsIntoMemory(g, d, fault) == RunModuleStages(g, d, fault, 1)

\* recommend_books of the module: line 120 tests the matrix for None; lines
\* 123-187 are lines 42-119 of recommendation_engine.py
ModuleRecommendBooks(g, user_id, k, top_n, ties) ==
    IF g.user_book_matrix = <<>>
    THEN Message("Datasets not loaded. Please load datasets first.")
    ELSE Recommend(g.books_data[1], g.user_book_matrix[1],
                   g.user_similarity[1], user_id, k, top_n, ties)

---------------------------------------------------------------------------
(* The calls, each a whole call of the service                             *)

UserIds == 1..MaxUserId
Ks == 0..MaxK
TopNs == 0..MaxTopN

Idle == [pc |-> "idle"]

\* op: the call last observed.  was_loaded is _is_loaded as the call found
\* it; repeat says that a recommend call has the arguments of the recommend
\* call observed before it, no other observed call between them, and that a
\* load is the caller's next call after a load that raised.
Observed(kind, args, was, repeat, raised, result) ==
    [kind |-> kind, args |-> args, was_loaded |-> was, repeat |-> repeat,
     raised |-> raised, result |-> result]

NoArgs == [none |-> TRUE]

Init ==
    /\ books_data = Unloaded.books_data
    /\ user_book_matrix = Unloaded.user_book_matrix
    /\ user_similarity = Unloaded.user_similarity
    /\ is_loaded = Unloaded.is_loaded
    /\ argsort_ties \in {"stable", "reversed"}
    /\ op = Observed("none", NoArgs, FALSE, FALSE, "none", NoValue)
    /\ ld = Idle
    /\ rd = Idle
    /\ recommendation = Globals(<<>>, <<>>, <<>>, NoValue)

Current == Context(books_data, user_book_matrix, user_similarity, is_loaded)

Becomes(c) ==
    /\ books_data' = c.books_data
    /\ user_book_matrix' = c.user_book_matrix
    /\ user_similarity' = c.user_similarity
    /\ is_loaded' = c.is_loaded

\* AfterRecommend, were line 61 without its copy(): line 62 then sets the
\* values <= 0 of the user's row of the shared similarity matrix to 0
AfterRecommendNoCopy(c, user_id) ==
    IF ~c.is_loaded \/ GetLoc(c.user_book_matrix[1].index, user_id) = 0
    THEN c
    ELSE LET ui == GetLoc(c.user_book_matrix[1].index, user_id)
             sim == c.user_similarity[1]
         IN [c EXCEPT !.user_similarity =
                <<[sim EXCEPT ![ui] = SimilarityScores(sim, ui)]>>]

\* AfterRecommend, were line 84 to write its -1 to the user's row of
\* ratings_matrix (to_numpy() of the shared matrix, not a copy)
AfterRecommendMasksMatrix(c, user_id) ==
    IF ~c.is_loaded \/ GetLoc(c.user_book_matrix[1].index, user_id) = 0
    THEN c
    ELSE LET ui == GetLoc(c.user_book_matrix[1].index, user_id)
             m == c.user_book_matrix[1]
             row == [j \in DOMAIN m.values[ui] |->
                       IF m.values[ui][j] > 0 THEN 0 - 1 ELSE m.values[ui][j]]
         IN [c EXCEPT !.user_book_matrix =
                <<[m EXCEPT !.values = [m.values EXCEPT ![ui] = row]]>>]

\* what recommend_books leaves of the context: it writes to the copy of the
\* similarity row (line 61) and to its own avg_book_ratings (line 77) only
AfterRecommend(c, user_id) == c

\* DatasetService.load_datasets(books_path, ratings_path, users_path), and
\* load_datasets_into_memory of the module on the same three files
Load(d, fault) ==
    /\ LET out == LoadDatasets(Current, d, fault)
       IN /\ Becomes(out.context)
          /\ op' = Observed("load", [dataset |-> d, fault |-> fault],
                            is_loaded, op.kind = "load" /\ op.raised # "none",
                            out.raised, out.result)
    /\ recommendation' =
          [LoadDatasetsIntoMemory(recommendation, d, fault)
              EXCEPT !.returned = NoValue]
    /\ UNCHANGED <<argsort_ties, ld, rd>>

\* DatasetService.get_status()
Status ==
    /\ op' = Observed("status", NoArgs, is_loaded, FALSE, "none",
                      GetStatus(Current))
    /\ recommendation' = [recommendation EXCEPT !.returned = NoValue]
    /\ UNCHANGED <<books_data, user_book_matrix, user_similarity, is_loaded,
                   argsort_ties, ld, rd>>

\* RecommendationEngine.get_recommendations_dict(user_id, k, top_n), and
\* recommend_books(user_id, k, top_n) of the module
RecommendCall(user_id, k, top_n) ==
    /\ LET args == [user_id |-> user_id, k |-> k, top_n |-> top_n]
       IN op' = Observed("recommend", args, is_loaded,
                         op.kind = "recommend" /\ op.args = args, "none",
                         GetRecommendationsDict(Current, user_id, k, top_n,
                                                argsort_ties))
    /\ Becomes(AfterRecommend(Current, user_id))
    /\ recommendation' =
          [recommendation EXCEPT
              !.returned = ModuleRecommendBooks(recommendation, user_id, k,
                                                top_n, argsort_ties)]
    /\ UNCHANGED <<argsort_ties, ld, rd>>

\* the same call made by a caller whose outcome is not observed
RecommendElsewhere(user_id) ==
    /\ Becomes(AfterRecommend(Current, user_id))
    /\ UNCHANGED <<argsort_ties, op, ld, rd, recommendation>>

Next ==
    \/ \E d \in Datasets, fault \in Faults : Load(d, fault)
    \/ Status
    \/ \E u \in UserIds, k \in Ks, n \in TopNs : RecommendCall(u, k, n)
    \/ \E u \in UserIds : RecommendElsewhere(u)

Spec == Init /\ [][Next]_vars

---------------------------------------------------------------------------
(* One load and one query in two threads: each step is one statement that  *)
(* reads or writes a field of the singleton.  op is left as it is.         *)

\* the datasets the interleaved runs load
ConcDatasets == {Files(1, 1, 1), Files(2, 6, 1), Files(1, 4, 1)}

\* load_datasets is entered
LoadBegin(d, fault) ==
    /\ ld = Idle
    /\ ld' = [pc |-> "running", next |-> 1, dataset |-> d, fault |-> fault]
    /\ rd' = IF rd = Idle THEN rd ELSE [rd EXCEPT !.overlapped = TRUE]
    /\ UNCHANGED <<books_data, user_book_matrix, user_similarity, is_loaded,
                   argsort_ties, op, recommendation>>

\* the next stage of the load runs, or raises into the handler
LoadStep ==
    /\ ld.pc = "running"
    /\ LET st == Stages[ld.next]
           error == StageRaises(ld.dataset, ld.fault, st)
       IN IF error # "none"
          THEN /\ Becomes(Handler(Current, error))
               /\ ld' = Idle
          ELSE /\ Becomes(StageEffect(Current, ld.dataset, st))
               /\ ld' = IF ld.next = Len(Stages) THEN Idle
                        ELSE [ld EXCEPT !.next = ld.next + 1]
    /\ UNCHANGED <<argsort_ties, op, rd, recommendation>>

Reading(pc, args, overlapped, b, m, s, result) ==
    [pc |-> pc, args |-> args, overlapped |-> overlapped, books_data |-> b,
     user_book_matrix |-> m, user_similarity |-> s, result |-> result]

\* recommend_books is entered; line 39 tests _is_loaded
QueryBegin(user_id, k, top_n) ==
    /\ rd = Idle
    /\ LET args == [user_id |-> user_id, k |-> k, top_n |-> top_n]
       IN rd' = IF is_loaded
                THEN Reading("matrix", args, ld # Idle, <<>>, <<>>, <<>>,
                             Message(""))
                ELSE Reading("done", args, ld # Idle, <<>>, <<>>, <<>>,
                             RecommendBooks(Current, user_id, k, top_n,
                                            argsort_ties))
    /\ UNCHANGED <<books_data, user_book_matrix, user_similarity, is_loaded,
                   argsort_ties, op, ld, recommendation>>

\* lines 44, 45 and 46: the three fields are read one after the other
QueryRead ==
    /\ rd.pc \in {"matrix", "similarity", "books"}
    /\ rd' = CASE rd.pc = "matrix" ->
                    [rd EXCEPT !.pc = "similarity",
                               !.user_book_matrix = user_book_matrix]
               [] rd.pc = "similarity" ->
                    [rd EXCEPT !.pc = "books",
                               !.user_similarity = user_similarity]
               [] rd.pc = "books" ->
                    [rd EXCEPT !.pc = "compute", !.books_data = books_data]
    /\ UNCHANGED <<books_data, user_book_matrix, user_similarity, is_loaded,
                   argsort_ties, op, ld, recommendation>>

\* lines 48-119 on what was read
QueryCompute ==
    /\ rd.pc = "compute"
    /\ rd' = [rd EXCEPT
                !.pc = "done",
                !.result = Recommend(rd.books_data[1], rd.user_book_matrix[1],
                                     rd.user_similarity[1], rd.args.user_id,
                                     rd.args.k, rd.args.top_n, argsort_ties)]
    /\ UNCHANGED <<books_data, user_book_matrix, user_similarity, is_loaded,
                   argsort_ties, op, ld, recommendation>>

QueryReturn ==
    /\ rd.pc = "done"
    /\ rd' = Idle
    /\ UNCHANGED <<books_data, user_book_matrix, user_similarity, is_loaded,
                   argsort_ties, op, ld, recommendation>>

ConcNext ==
    \/ \E d \in ConcDatasets, fault \in Faults : LoadBegin(d, fault)
    \/ LoadStep
    \/ \E u \in UserIds : QueryBegin(u, MaxK, MaxTopN)
    \/ QueryRead
    \/ QueryCompute
    \/ QueryReturn

ConcSpec == Init /\ [][ConcNext]_vars

---------------------------------------------------------------------------
(* Claims                                                                  *)

IsRecommend == op.kind = "recommend"

Succeeded == IsRecommend /\ op.result.status = "success"

\* the rows a successful recommend call returned
Rows == op.result.recommendations[1]

NotLoadedMessage == "Datasets not loaded. Please load datasets first."

\* C1: a load_datasets that raises while a dataset is loaded leaves the books
\* table, the user-book matrix, the similarity matrix and is_loaded as they
\* were.
C1_FailedLoadKeepsContext ==
    [][(op'.kind = "load" /\ op'.raised # "none" /\ is_loaded)
         => UNCHANGED ctx]_vars

\* the three objects were assigned by one successful load of some dataset
SameLoad(b, m, s) ==
    \E d \in Datasets :
        /\ Computed[d].matrix.index # <<>>
        /\ b = <<BooksFiles[d.books]>>
        /\ m = <<Computed[d].matrix>>
        /\ s = <<Computed[d].similarity>>

\* C2: a recommend_books that runs while a load_datasets runs reads a books
\* table, a user-book matrix and a similarity matrix of one and the same load.
C2_QueryReadsOneLoad ==
    (rd.pc = "compute" /\ rd.overlapped)
        => SameLoad(rd.books_data, rd.user_book_matrix, rd.user_similarity)

\* C3: no row of a successful recommend_books is a book whose cell in the
\* target user's row of the user-book matrix is > 0.
C3_NeverRecommendsRated ==
    Succeeded =>
        LET m == user_book_matrix[1]
            ui == GetLoc(m.index, op.args.user_id)
        IN \A i \in DOMAIN Rows :
              m.values[ui][GetLoc(m.columns, Rows[i].ISBN)] <= 0

\* C3 witness: rows were returned to a user some of whose rated books the
\* neighbours rated too.
C3_Witness ==
    /\ Succeeded
    /\ Rows # <<>>
    /\ LET m == user_book_matrix[1]
           ui == GetLoc(m.index, op.args.user_id)
       IN \E j \in DOMAIN m.columns, v \in DOMAIN m.index :
             v # ui /\ m.values[ui][j] > 0 /\ m.values[v][j] > 0

\* C4: a successful recommend_books(user_id, k, top_n) returns at most top_n
\* rows.
C4_AtMostTopN == Succeeded => Len(Rows) <= op.args.top_n

\* C5 as stated: each row's predicted rating is strictly greater than the
\* next row's.
C5_StrictlyDescending ==
    Succeeded =>
        \A i \in 1..(Len(Rows) - 1) :
            Rows[i].Predicted_Rating.num > Rows[i + 1].Predicted_Rating.num

\* C5: the rows of a successful recommend_books are in descending order of
\* predicted rating: no row's predicted rating is less than the next row's.
C5_Descending ==
    Succeeded =>
        \A i \in 1..(Len(Rows) - 1) :
            Rows[i].Predicted_Rating.num >= Rows[i + 1].Predicted_Rating.num

\* C5 witness: two rows of different predicted ratings, put in the other
\* order than the books table has them.
C5_Witness ==
    /\ Succeeded
    /\ Len(Rows) >= 2
    /\ Rows[1].Predicted_Rating.num > Rows[2].Predicted_Rating.num
    /\ Rows[1].ISBN > Rows[2].ISBN

\* C6: recommend_books for a user_id that is no row of the loaded matrix
\* returns the user-not-found error result, without recommendations, and
\* does not raise.
C6_UnknownUserIsAnErrorResult ==
    (IsRecommend /\ op.was_loaded
        /\ op.args.user_id \notin Range(user_book_matrix[1].index))
    => /\ op.raised = "none"
       /\ op.result.status = "error"
       /\ op.result.message = <<"User ID not found in the dataset">>
       /\ op.result.recommendations = <<>>
       /\ op.result.user_id = op.args.user_id

\* C6 witness: such a call, on a matrix that has rows.
C6_Witness ==
    /\ IsRecommend /\ op.was_loaded
    /\ user_book_matrix[1].index # <<>>
    /\ op.args.user_id \notin Range(user_book_matrix[1].index)
    /\ op.result.status = "error"

\* C7 as stated: a recommend_books or a get_status against a context with no
\* dataset loaded fails with an error.
C7_QueriesFailWhenNotLoaded ==
    (op.kind \in {"recommend", "status"} /\ ~op.was_loaded)
        => (op.raised # "none" \/ op.result.status = "error")

\* C7: against a context with no dataset loaded, recommend_books returns the
\* not-loaded error result, and get_status returns normally, with status
\* not_loaded.
C7_NotLoadedAnswers ==
    /\ (IsRecommend /\ ~op.was_loaded)
         => /\ op.raised = "none"
            /\ op.result.status = "error"
            /\ op.result.message = <<NotLoadedMessage>>
    /\ (op.kind = "status" /\ ~op.was_loaded)
         => /\ op.raised = "none"
            /\ op.result.status = "not_loaded"

\* C7 witness: recommend_books after a load that failed over a loaded
\* dataset: the matrix is there, and the call answers not-loaded.
C7_Witness ==
    /\ IsRecommend /\ ~op.was_loaded
    /\ user_book_matrix # <<>>
    /\ op.args.user_id \in Range(user_book_matrix[1].index)
    /\ op.result.message = <<NotLoadedMessage>>

\* the call observed has k above the number of other users of the matrix
AboveClamp ==
    /\ IsRecommend /\ op.was_loaded
    /\ op.args.k > Len(user_book_matrix[1].index) - 1

\* the same call with k = number of rows - 1
ClampedCall ==
    GetRecommendationsDict(Current, op.args.user_id,
                           Len(user_book_matrix[1].index) - 1,
                           op.args.top_n, argsort_ties)

\* C8 as stated: a call with k > n - 1 returns what the call with k = n - 1
\* returns, every reported field included.
C8_ClampedCallIdentical == AboveClamp => op.result = ClampedCall

\* C8: a call with k > n - 1 returns the status, message, recommendations
\* (items, order, predicted ratings), total_recommendations and top_n_books of
\* the call with k = n - 1; parameters.k_similar_users is the k of each call.
C8_ClampedCallSameRecommendations ==
    AboveClamp =>
        /\ op.result.status = ClampedCall.status
        /\ op.result.message = ClampedCall.message
        /\ op.result.user_id = ClampedCall.user_id
        /\ op.result.recommendations = ClampedCall.recommendations
        /\ op.result.total_recommendations = ClampedCall.total_recommendations
        /\ op.result.status = "success" =>
             /\ op.result.parameters[1].top_n_books
                  = ClampedCall.parameters[1].top_n_books
             /\ op.result.parameters[1].k_similar_users = op.args.k

\* C8 witness: a successful call with k above the clamp, on a matrix of three
\* users.
C8_Witness ==
    /\ AboveClamp /\ Succeeded
    /\ Len(user_book_matrix[1].index) = 3
    /\ Rows # <<>>

\* C9: a recommend_books call with the arguments of the recommend_books call
\* observed before it, no load between the two (other recommend calls may
\* run between them), returns what that call returned.
C9_SameCallSameOutput ==
    [][(op.kind = "recommend" /\ op'.kind = "recommend"
          /\ op'.args = op.args)
         => (op'.result = op.result /\ op'.raised = op.raised)]_vars

\* C9 witness: a successful call repeated.
C9_Witness == Succeeded /\ op.repeat /\ Rows # <<>>

\* C10: a recommend_books call, successful or not, leaves the books table,
\* the user-book matrix, the similarity matrix and is_loaded as they were.
C10_RecommendChangesNothing ==
    [][op'.kind = "recommend" => UNCHANGED ctx]_vars

\* C10 witness: a successful call for a user whose similarity row has a
\* negative value, which line 62 sets to 0 in its copy.
C10_Witness ==
    /\ Succeeded
    /\ LET ui == GetLoc(user_book_matrix[1].index, op.args.user_id)
       IN \E j \in DOMAIN user_similarity[1][ui] :
             user_similarity[1][ui][j] < 0

\* the load observed returned its status dict
LoadSucceeded == op.kind = "load" /\ op.raised = "none"

\* the cells of row i, of column j, of matrix m that are not 0
NonzeroInRow(m, i) == {j \in DOMAIN m.columns : m.values[i][j] # 0}

NonzeroInColumn(m, j) == {i \in DOMAIN m.index : m.values[i][j] # 0}

\* C11: after a successful load_datasets every row of the user-book matrix
\* has at least min_user_ratings cells that are not 0 and every column at
\* least min_book_ratings.
C11_RowsAndColumnsMeetThresholds ==
    LoadSucceeded =>
        LET m == user_book_matrix[1]
        IN /\ \A i \in DOMAIN m.index :
                 Cardinality(NonzeroInRow(m, i)) >= min_user_ratings
           /\ \A j \in DOMAIN m.columns :
                 Cardinality(NonzeroInColumn(m, j)) >= min_book_ratings

\* every rating of the Book-Ratings.csv of dataset d is 0
ZeroRatingsOnly(d) ==
    \A i \in DOMAIN RatingsFiles[d.ratings] :
        RatingsFiles[d.ratings][i].Book_Rating = 0

\* C12: a load_datasets whose ratings are all 0 raises to its caller; it
\* returns no success result, the error it reports is not a division by zero
\* of the statistics, and get_status does not report a loaded context of zero
\* users after it.
C12_ZeroRatingsLoadFails ==
    (op.kind = "load" /\ ZeroRatingsOnly(op.args.dataset))
    => /\ op.raised # "none"
       /\ op.result.status # "success"
       /\ op.result.cause # "ZeroDivisionError"
       /\ LET st == GetStatus(Current)
          IN st.status = "loaded" => st.users > 0

\* C12 witness: such a load, all three files read, over a loaded dataset: the
\* empty matrix has replaced the old one and the context is not loaded.
C12_Witness ==
    /\ op.kind = "load" /\ ZeroRatingsOnly(op.args.dataset)
    /\ op.args.fault.stage = "none"
    /\ op.was_loaded
    /\ op.raised = "Exception"
    /\ user_book_matrix # <<>> /\ user_book_matrix[1].index = <<>>
    /\ ~is_loaded

\* the cells of row i of matrix m that are > 0
RatedInRow(m, i) == {j \in DOMAIN m.columns : m.values[i][j] > 0}

\* C13: in the similarity matrix a successful load has built, sim(i,i) is 1
\* for every user row i that has a rating > 0 and 0 for a row that has none.
C13_SelfSimilarity ==
    LoadSucceeded =>
        LET m == user_book_matrix[1]
            sim == user_similarity[1]
        IN \A i \in DOMAIN m.index :
              sim[i][i] = IF RatedInRow(m, i) # {} THEN SimScale ELSE 0

\* C14: the similarity matrix a successful load has built is symmetric.
C14_SimilaritySymmetric ==
    LoadSucceeded =>
        LET sim == user_similarity[1]
        IN \A i \in DOMAIN sim, j \in DOMAIN sim : sim[i][j] = sim[j][i]

\* C14 witness: a matrix of three users, two of them with rows of different
\* norms and a similarity that is neither 0 nor 1 nor -1.
C14_Witness ==
    /\ LoadSucceeded
    /\ Len(user_similarity[1]) >= 3
    /\ LET m == user_book_matrix[1]
           sim == user_similarity[1]
       IN \E i \in DOMAIN sim, j \in DOMAIN sim :
             /\ i # j
             /\ sim[i][j] \notin {0, SimScale, 0 - SimScale}
             /\ Dot(Normalized(m.values[i]), Normalized(m.values[i]))
                  # Dot(Normalized(m.values[j]), Normalized(m.values[j]))

\* the recommend_books call observed found a dataset loaded and its user in
\* the matrix
TargetFound ==
    /\ IsRecommend /\ op.was_loaded
    /\ op.args.user_id \in Range(user_book_matrix[1].index)

\* the target user's row of the matrix
TargetIndex == GetLoc(user_book_matrix[1].index, op.args.user_id)

\* similarity_scores of the call observed (line 61-62)
TargetScores == SimilarityScores(user_similarity[1], TargetIndex)

\* similar_users_indices of the call observed (lines 58-68)
NeighboursUsed ==
    SimilarUsersIndices(TargetScores,
                        ClampK(op.args.k, Len(user_book_matrix[1].index)),
                        argsort_ties)

\* C15: the rows recommend_books takes as the target's neighbours never
\* include the target's own row.
C15_SelfIsNoNeighbour ==
    TargetFound => TargetIndex \notin Range(NeighboursUsed)

NoSimilarUsersMessage == "No similar users found for recommendations"

\* none of the k most similar other users has a similarity > 0 to the
\* target: k is cut to 0, or no other user has one
NoPositiveNeighbour ==
    \/ ClampK(op.args.k, Len(user_book_matrix[1].index)) = 0
    \/ \A j \in DOMAIN user_similarity[1][TargetIndex] :
          j # TargetIndex => user_similarity[1][TargetIndex][j] <= 0

\* C16: for a user of the loaded matrix, recommend_books returns the
\* no-similar-users error result exactly when none of the k most similar
\* other users has a similarity > 0; otherwise every neighbour it uses has a
\* similarity > 0.
C16_NoSimilarUsersExactly ==
    TargetFound =>
        /\ (op.result.message = <<NoSimilarUsersMessage>>) <=> NoPositiveNeighbour
        /\ ~NoPositiveNeighbour =>
              /\ NeighboursUsed # <<>>
              /\ \A i \in DOMAIN NeighboursUsed :
                    user_similarity[1][TargetIndex][NeighboursUsed[i]] > 0

\* C16 witness: the error result for k >= 1 in a matrix of several users,
\* none of them similar to the target.
C16_Witness ==
    /\ TargetFound
    /\ op.result.message = <<NoSimilarUsersMessage>>
    /\ op.args.k >= 1
    /\ Len(user_book_matrix[1].index) >= 2
    /\ \E j \in DOMAIN user_similarity[1][TargetIndex] :
          user_similarity[1][TargetIndex][j] < 0

\* C17: the service class and the free functions of services/recommendation.py,
\* given the same loads, return the same result to every recommend call: the
\* same message or the same rows.
C17_SameResultAsModule ==
    IsRecommend =>
        LET r == recommendation.returned
        IN /\ (op.result.status = "success") <=> r.ok
           /\ op.result.message = IF r.ok THEN <<>> ELSE <<r.message>>
           /\ op.result.recommendations = IF r.ok THEN <<r.rows>> ELSE <<>>

\* the context a load of dataset d leaves when it is the first call made
FirstLoadOf(d) == LoadDatasets(Unloaded, d, NoFault).context

\* C18: a load_datasets that succeeds right after one that failed leaves the
\* context loaded, get_status reporting the new matrix's dimensions, and the
\* books table, the matrix and the similarities those of the new dataset:
\* recommend_books answers as after a first load of it.
C18_LoadAfterFailedLoad ==
    (LoadSucceeded /\ op.repeat) =>
        LET d == op.args.dataset
        IN /\ is_loaded
           /\ GetStatus(Current).status = "loaded"
           /\ GetStatus(Current).users = Len(Computed[d].matrix.index)
           /\ GetStatus(Current).books = Len(Computed[d].matrix.columns)
           /\ Current = FirstLoadOf(d)
           /\ \A u \in UserIds :
                 RecommendBooks(Current, u, MaxK, MaxTopN, argsort_ties)
                   = RecommendBooks(FirstLoadOf(d), u, MaxK, MaxTopN,
                                    argsort_ties)

\* C18 witness: such a load, of a dataset of three users and more, the failed
\* load before it having left the context not loaded.
C18_Witness ==
    /\ LoadSucceeded /\ op.repeat
    /\ ~op.was_loaded
    /\ Len(user_book_matrix[1].index) >= 3

\* the cells of matrix m that are not 0
NonzeroCells(m) ==
    {ij \in (DOMAIN m.index) \X (DOMAIN m.columns) :
        m.values[ij[1]][ij[2]] # 0}

\* C19: the total_ratings a successful load_datasets returns is the number
\* of nonzero cells of the matrix, which is the total_ratings get_status
\* reports, and its sparsity is 1 - nonzero / (rows x columns).
C19_TotalRatingsIsNonzeroCells ==
    LoadSucceeded =>
        LET m == user_book_matrix[1]
            nonzero == Cardinality(NonzeroCells(m))
            cells == Len(m.index) * Len(m.columns)
        IN /\ op.result.total_ratings = nonzero
           /\ op.result.total_ratings = GetStatus(Current).total_ratings
           /\ op.result.sparsity.num * cells
                = (cells - nonzero) * op.result.sparsity.den

NoNewBooksMessage == "No new books to recommend"

\* C20: when recommend_books has found a neighbour of similarity > 0 for its
\* target, it returns the no-new-books error result only if the target has a
\* rating > 0 in every column, and at least one recommendation otherwise.
C20_NoNewBooksOnlyIfAllRated ==
    (TargetFound /\ NeighboursUsed # <<>>) =>
        LET m == user_book_matrix[1]
            all_rated == RatedInRow(m, TargetIndex) = DOMAIN m.columns
        IN /\ op.result.message = <<NoNewBooksMessage>> => all_rated
           /\ ~all_rated => (Succeeded /\ Len(Rows) >= 1)

\* C21: whenever the context is loaded and no load_datasets is running, the
\* books table, the user-book matrix and the similarity matrix are those one
\* successful load assigned, and the similarity matrix is square, its side
\* the number of rows of the user-book matrix.
C21_LoadedContextIsOneLoad ==
    (is_loaded /\ ld = Idle) =>
        /\ SameLoad(books_data, user_book_matrix, user_similarity)
        /\ Len(user_similarity[1]) = Len(user_book_matrix[1].index)
        /\ \A i \in DOMAIN user_similarity[1] :
              Len(user_similarity[1][i]) = Len(user_book_matrix[1].index)

====
